---- MODULE Spec2Model ----
(***************************************************************************)
(* A model of src/src_clean/model_clean.py: the decoding loops of the      *)
(* Transducer family, the HMM forward algorithm, the batched gather and    *)
(* the masked loss.                                                        *)
(*                                                                         *)
(* Conventions.                                                            *)
(*  - A tensor is a sequence of sequences, outermost axis first; TLA+      *)
(*    sequences are 1-based, so the code's position p is element p + 1.    *)
(*    Loop counters (idx, t) and pointers (attn_pos) keep the code's       *)
(*    0-based values.                                                      *)
(*  - The learned layers (embedding, LSTM cell, linear maps) are free      *)
(*    terms: the value they return records exactly the arguments they      *)
(*    were applied to, so the data flow of the loops is what is checked.   *)
(*    Dropout is left out (the identity outside training).                 *)
(*  - Real numbers are exact fractions of natural numbers, and a number    *)
(*    in log space is kept as the fraction it is the logarithm of;         *)
(*    rounding of the floating point arithmetic is not modelled.           *)
(***************************************************************************)
EXTENDS Integers, Sequences, FiniteSets, TLC

\* Reserved vocabulary indices imported from dataloader_clean (line 13).
PAD_IDX == 0
STEP_IDX == 4

\* A target symbol that is neither PAD nor STEP.
OtherSym == STEP_IDX + 1

\* 1 / EPSILON (line 15: EPSILON = 1e-7).
EpsInv == 10000000

\* Bounds of the model.
MaxTrgLen == 3
MaxSrcLen == 3

BatchSizes == {1, 2}
TrgSyms == {PAD_IDX, STEP_IDX, OtherSym}

VARIABLES
    model,       \* the class or function whose code runs
    pc,          \* position of the running call / how it ended
    \* decode (all Transducer classes), get_loss
    trg_batch,   \* (trg_seq_len, batch) target symbols
    enc_hs,      \* (src_seq_len, batch) encoder states
    enc_mask,    \* (src_seq_len, batch) 1 = real position, 0 = padding
    idx,         \* loop counter of decode
    hidden,      \* decoder recurrent state, one per batch example
    attn_pos,    \* HardMonoTransducer: the pointer of every batch example
    output,      \* list of per-step outputs
    result,      \* the value decode returned (<<>> while none)
    scored,      \* get_loss: the (prediction, target) pairs the loss reads
    \* fancy_gather
    value, index, gathered,
    \* Transducer.loss
    predict, target, loss_hist,
    \* HMMTransducer.decode
    attn_w,      \* the attention weight of every (example, source position)
    initial, transition, emission,
    \* HMM.p_x
    hmm,         \* the HMM object: ns, V, initial, transition, emission
    seq,         \* (T, batch) observed tokens
    ignore_index,\* <<>> for None, <<i>> for the index i
    t_,          \* loop counter t of p_x
    fwd          \* the forward tensor, (batch, 1, ns)

decVars == <<trg_batch, enc_hs, enc_mask, idx, hidden, attn_pos, output,
             result, scored>>
gatherVars == <<value, index, gathered>>
lossVars == <<predict, target, loss_hist>>
hmmVars == <<attn_w, initial, transition, emission>>
pxVars == <<hmm, seq, ignore_index, t_, fwd>>
vars == <<model, pc, decVars, gatherVars, lossVars, hmmVars, pxVars>>

----------------------------------------------------------------------------
\* Tensor helpers

\* tensor.size(0), tensor.size(1) of a 2-d tensor
Size0(t) == Len(t)
Size1(t) == IF Len(t) = 0 THEN 0 ELSE Len(t[1])

\* The sequence f with its entries computed once
Row(f) == f \o <<>>

RECURSIVE SumSeq(_)
SumSeq(s) == IF s = <<>> THEN 0 ELSE s[1] + SumSeq(Tail(s))

\* All (rows, cols) tensors with entries in S
Tensors(rows, cols, S) == [1..rows -> [1..cols -> S]]

----------------------------------------------------------------------------
\* fancy_gather (lines 379-382)

\* value.split(1, dim=1): the columns of a 2-d tensor
SplitCols(t) == [b \in 1..Size1(t) |-> [r \in 1..Len(t) |-> t[r][b]]]

\* v[i.view(-1)]: index a column by an index vector; an index outside
\* -len .. len-1 raises IndexError, a negative one counts from the end.
IndexCol(v, i) ==
    IF \A k \in 1..Len(i) : i[k] \in (0 - Len(v))..(Len(v) - 1)
    THEN [err |-> "none",
          val |-> [k \in 1..Len(i) |-> v[(i[k] % Len(v)) + 1]]]
    ELSE [err |-> "IndexError", val |-> <<>>]

\* torch.cat(chunks, dim=1) of column chunks with K rows each
CatCols(cols, K) == [k \in 1..K |-> [b \in 1..Len(cols) |-> cols[b][k]]]

\* A gather that applies the first column's indices to every column.
fancy_gatherSharedIndex(val, ind) ==
    IF Size1(val) # Size1(ind)
    THEN [err |-> "AssertionError", val |-> <<>>]
    ELSE LET vs == SplitCols(val)
             is == SplitCols(ind)
             picked == [b \in 1..Len(vs) |-> IndexCol(vs[b], is[1])]
         IN IF \E b \in 1..Len(vs) : picked[b].err # "none"
            THEN [err |-> "IndexError", val |-> <<>>]
            ELSE [err |-> "none",
                  val |-> CatCols([b \in 1..Len(vs) |-> picked[b].val],
                                  Len(ind))]

fancy_gather(val, ind) ==
    IF Size1(val) # Size1(ind)
    THEN [err |-> "AssertionError", val |-> <<>>]
    ELSE LET vs == SplitCols(val)
             is == SplitCols(ind)
             picked == [b \in 1..Len(vs) |-> IndexCol(vs[b], is[b])]
         IN IF \E b \in 1..Len(vs) : picked[b].err # "none"
            THEN [err |-> "IndexError", val |-> <<>>]
            ELSE [err |-> "none",
                  val |-> CatCols([b \in 1..Len(vs) |-> picked[b].val],
                                  Len(ind))]

----------------------------------------------------------------------------
\* Learned layers as free terms

\* self.trg_embed(trg_batch): one embedding per symbol
trg_embed(trg) ==
    [p \in 1..Len(trg) |-> [b \in 1..Len(trg[p]) |-> <<"emb", trg[p][b]>>]]

\* self.dec_rnn.get_init_hx(batch): a zero state per example
get_init_hx(bs) == [b \in 1..bs |-> <<>>]

\* self.dec_rnn(input_, hidden): the new state of an example is a function
\* of its previous state and its input; h_t is read off the new state.
dec_rnn(input_, hid) ==
    Row([b \in 1..Len(hid) |-> Append(hid[b], input_[b])])

\* The encoder output handed to decode: one state per (position, example)
EncStates(n, bs) == [p \in 1..n |-> [b \in 1..bs |-> <<"enc", p - 1, b>>]]

\* The masks of a batch padded to length n: example b has lens[b] real
\* positions, and the longest example has n.
Masks(n, bs) ==
    { [p \in 1..n |-> [b \in 1..bs |-> IF p <= lens[b] THEN 1 ELSE 0]] :
        lens \in { l \in [1..bs -> 1..n] : \E b \in 1..bs : l[b] = n } }

----------------------------------------------------------------------------
\* The decode steps

\* Transducer.decode_step (lines 70-83)
Transducer_decode_step(enc, mask, input_, hid) ==
    LET new == dec_rnn(input_, hid)
        word_logprob ==
            [b \in 1..Len(hid) |->
                [h_t |-> new[b],
                 ctx |-> <<"attn", SplitCols(enc)[b], SplitCols(mask)[b]>>]]
    IN [err |-> "none", word_logprob |-> word_logprob, hidden |-> new]

\* The decoder input of step i (line 95, line 343): trg_embed[idx, :]
StepInputNext(trg, i) == trg_embed(trg)[i + 2]

StepInput(trg, i) == trg_embed(trg)[i + 1]

\* A decode step that refuses a pointer on a padding position.
HardMono_decode_stepMasked(enc, mask, input_, hid, pos) ==
    LET g == fancy_gather(enc, <<pos>>)
        seen == fancy_gather(mask, <<pos>>)
    IN IF g.err # "none" \/ \E b \in 1..Len(pos) : seen.val[1][b] = 0
       THEN [err |-> "IndexError", word_logprob |-> <<>>, hidden |-> hid]
       ELSE LET ctx == g.val[1]
                cat == [b \in 1..Len(hid) |-> <<input_[b], ctx[b]>>]
                new == dec_rnn(cat, hid)
            IN [err |-> "none",
                word_logprob |-> [b \in 1..Len(hid) |-> [h_t |-> new[b]]],
                hidden |-> new]

\* A decode step that clamps the pointer to the last source position.
HardMono_decode_stepClamped(enc, mask, input_, hid, pos) ==
    LET last == Len(enc) - 1
        g == fancy_gather(enc, << [b \in 1..Len(pos) |->
                                     IF pos[b] > last THEN last ELSE pos[b]] >>)
        ctx == g.val[1]
        cat == [b \in 1..Len(hid) |-> <<input_[b], ctx[b]>>]
        new == dec_rnn(cat, hid)
    IN [err |-> "none",
        word_logprob |-> [b \in 1..Len(hid) |-> [h_t |-> new[b]]],
        hidden |-> new]

\* HardMonoTransducer.decode_step (lines 308-325), attn_pos a tensor and
\* no attribute vector (nb_attr = 0, attr is None)
HardMono_decode_step(enc, mask, input_, hid, pos) ==
    LET g == fancy_gather(enc, <<pos>>)
    IN IF g.err # "none"
       THEN [err |-> g.err, word_logprob |-> <<>>, hidden |-> hid]
       ELSE LET ctx == g.val[1]
                cat == [b \in 1..Len(hid) |-> <<input_[b], ctx[b]>>]
                new == dec_rnn(cat, hid)
            IN [err |-> "none",
                word_logprob |-> [b \in 1..Len(hid) |-> [h_t |-> new[b]]],
                hidden |-> new]

\* A scan that reads the symbol before the current one.
AdvanceAfterStep(pos, trg, i) ==
    [j \in 1..Len(pos) |->
        IF i > 0 /\ trg[i][j] = STEP_IDX THEN pos[j] + 1 ELSE pos[j]]

\* Lines 340-342: the scan that advances the pointers before step i
AdvancePointers(pos, trg, i) ==
    [j \in 1..Len(pos) |->
        IF trg[i + 1][j] = STEP_IDX THEN pos[j] + 1 ELSE pos[j]]

----------------------------------------------------------------------------
\* Transducer.loss (lines 116-123) and get_loss (lines 125-129)

\* predict.view(-1, V) / target.view(-1): the first two axes flattened
View(t) ==
    [n \in 1..(Size0(t) * Size1(t)) |->
        t[((n - 1) \div Size1(t)) + 1][((n - 1) % Size1(t)) + 1]]

\* The rows F.nll_loss reads: row n of the input with the class target[n],
\* for every n whose target is not ignore_index, in order.
NllTerms(input, targ, ignore) ==
    LET keep == SelectSeq([n \in 1..Len(targ) |-> n],
                          LAMBDA n : targ[n] # ignore)
    IN [k \in 1..Len(keep) |-> [row |-> input[keep[k]],
                                class |-> targ[keep[k]]]]

\* A mean over every position, the ignored ones included in the count.
nll_lossMeanOverAll(input, targ, ignore) ==
    LET ts == NllTerms(input, targ, ignore)
    IN [num |-> SumSeq([k \in 1..Len(ts) |-> 0 - ts[k].row[ts[k].class + 1]]),
        den |-> Len(targ)]

\* F.nll_loss(input, target, ignore_index), reduction 'mean': the value
\* num / den (0 / 0, not a number, when every target is ignored)
nll_loss(input, targ, ignore) ==
    LET ts == NllTerms(input, targ, ignore)
    IN [num |-> SumSeq([k \in 1..Len(ts) |-> 0 - ts[k].row[ts[k].class + 1]]),
        den |-> Len(ts)]

Transducer_loss(pred, targ) == nll_loss(View(pred), View(targ), PAD_IDX)

\* trg[1:]
Shifted(trg) == SubSeq(trg, 2, Len(trg))

----------------------------------------------------------------------------
\* Exact arithmetic

\* A natural number of any size: its digits in base EpsInv, lowest first,
\* without leading zeros (<<>> is 0).
RECURSIVE Carry(_, _)
Carry(p, c) ==
    IF p = <<>>
    THEN IF c = 0 THEN <<>>
         ELSE <<c % EpsInv>> \o Carry(<<>>, c \div EpsInv)
    ELSE <<(p[1] + c) % EpsInv>> \o Carry(Tail(p), (p[1] + c) \div EpsInv)

RECURSIVE Trim(_)
Trim(p) ==
    IF p # <<>> /\ p[Len(p)] = 0 THEN Trim(SubSeq(p, 1, Len(p) - 1)) ELSE p

Norm(p) == Trim(Carry(p, 0))

Digit(p, k) == IF k <= Len(p) THEN p[k] ELSE 0

\* (one-digit results are written down directly)
BAdd(p, q) ==
    IF Len(p) = 1 /\ Len(q) = 1 /\ p[1] + q[1] < EpsInv
    THEN <<p[1] + q[1]>>
    ELSE Norm([k \in 1..(IF Len(p) > Len(q) THEN Len(p) ELSE Len(q)) |->
                  Digit(p, k) + Digit(q, k)])

BMul(p, q) ==
    IF p = <<>> \/ q = <<>> THEN <<>>
    ELSE IF Len(p) = 1 /\ Len(q) = 1 /\ p[1] <= (EpsInv - 1) \div q[1]
    THEN <<p[1] * q[1]>>
    ELSE Norm([k \in 1..(Len(p) + Len(q) - 1) |->
                  SumSeq([i \in 1..k |-> Digit(p, i) * Digit(q, k + 1 - i)])])

\* p * EpsInv^k
BShift(p, k) == IF p = <<>> THEN <<>> ELSE [i \in 1..k |-> 0] \o p

RECURSIVE BLe(_, _)
BLe(p, q) ==
    IF Len(p) # Len(q) THEN Len(p) < Len(q)
    ELSE IF p = <<>> THEN TRUE
    ELSE IF p[Len(p)] # q[Len(q)] THEN p[Len(p)] < q[Len(q)]
    ELSE BLe(SubSeq(p, 1, Len(p) - 1), SubSeq(q, 1, Len(q) - 1))

\* A real number: the fraction n / d of two naturals (not reduced)
QFrac(a, b) == [n |-> Norm(<<a>>), d |-> Norm(<<b>>)]
QInt(a) == QFrac(a, 1)

\* EPSILON = 1e-7 (line 15)
EPSILON == [n |-> <<1>>, d |-> <<0, 1>>]

\* Two fractions brought over one denominator: <<numerator of a, numerator
\* of b, denominator>>; denominators that are equal, or equal up to a power
\* of EpsInv, are kept as they are.
Common(a, b) ==
    LET ka == Len(a.d)
        kb == Len(b.d)
    IN IF a.d = b.d THEN <<a.n, b.n, a.d>>
       ELSE IF kb > ka /\ b.d = BShift(a.d, kb - ka)
       THEN <<BShift(a.n, kb - ka), b.n, b.d>>
       ELSE IF ka > kb /\ a.d = BShift(b.d, ka - kb)
       THEN <<a.n, BShift(b.n, ka - kb), a.d>>
       ELSE <<BMul(a.n, b.d), BMul(b.n, a.d), BMul(a.d, b.d)>>

QAdd(a, b) == LET c == Common(a, b) IN [n |-> BAdd(c[1], c[2]), d |-> c[3]]
QMul(a, b) == [n |-> BMul(a.n, b.n), d |-> BMul(a.d, b.d)]
QDiv(a, b) == LET c == Common(a, b) IN [n |-> c[1], d |-> c[2]]
QEq(a, b) == LET c == Common(a, b) IN c[1] = c[2]
QLe(a, b) == LET c == Common(a, b) IN BLe(c[1], c[2])

\* The sum of a non-empty sequence of fractions
RECURSIVE QSum(_)
QSum(s) == IF Len(s) = 1 THEN s[1] ELSE QAdd(s[1], QSum(Tail(s)))

\* A number in log space is kept as the fraction it is the logarithm of:
\* Log(q) stands for ln q, so that sums of logarithms are products; the
\* logarithm of 0 is -inf. NaN is the float that is not a number.
Log(q) == [ln |-> q]
Exp(x) == x.ln
NaN == [nan |-> TRUE]
IsNaN(x) == DOMAIN x = {"nan"}
IsNegInf(x) == ~ IsNaN(x) /\ Exp(x).n = <<>>

\* x + y, x - y and -x of two log-space numbers below +inf; nan stays nan,
\* and -inf - (-inf) is nan
LAdd(x, y) ==
    IF IsNaN(x) \/ IsNaN(y) THEN NaN ELSE Log(QMul(Exp(x), Exp(y)))
LSub(x, y) ==
    IF IsNaN(x) \/ IsNaN(y) \/ (IsNegInf(x) /\ IsNegInf(y)) THEN NaN
    ELSE Log(QDiv(Exp(x), Exp(y)))
LNeg(x) == IF IsNaN(x) THEN NaN ELSE Log(QDiv(QInt(1), Exp(x)))

\* c * x for a factor c in {-1, 0, 1} and a log-space number x below +inf:
\* 0 * x is 0 for a finite x, and 0 * -inf is nan
LTimes(c, x) ==
    IF IsNaN(x) THEN NaN
    ELSE IF c = 0 THEN (IF IsNegInf(x) THEN NaN ELSE Log(QInt(1)))
    ELSE IF c = 1 THEN x ELSE LNeg(x)

\* row.logsumexp(dim=-1) of one row: nan when an entry is nan
logsumexp(row) ==
    IF \E j \in 1..Len(row) : IsNaN(row[j]) THEN NaN
    ELSE Log(QSum(Row([j \in 1..Len(row) |-> Exp(row[j])])))

\* F.softmax(row, dim=-1) of one row of scores
softmax(row) ==
    LET tot == Exp(logsumexp(row))
    IN Row([j \in 1..Len(row) |-> QDiv(Exp(row[j]), tot)])

\* tensor.shape == dims, for a tensor of Len(dims) axes
RECURSIVE HasShape(_, _)
HasShape(x, dims) ==
    \/ dims = <<>>
    \/ /\ Len(x) = dims[1]
       /\ \A k \in 1..Len(x) : HasShape(x[k], Tail(dims))

----------------------------------------------------------------------------
\* HMMTransducer.decode_step, MonoHMMTransducer.decode_step

\* torch.bmm(hs_, h_t).squeeze(2) (line 228), a (batch, src_seq_len) tensor
\* of scores: the score of source position j at a step is the logarithm of
\* the attention weight w of the position the decoder state, which has
\* read Len(h_t[b]) symbols, lines j up with.
attn_score(w, h_t) ==
    Row([b \in 1..Len(h_t) |->
        Row([j \in 1..Len(w[b]) |->
            Log(QInt(w[b][((j + Len(h_t[b]) - 2) % Len(w[b])) + 1]))])])

\* Line 229: F.softmax(score, dim=-1) * enc_mask.transpose(0, 1) + EPSILON
trans_floor(score, maskT) ==
    Row([b \in 1..Len(score) |->
        Row([j \in 1..Len(score[b]) |->
            QAdd(QMul(softmax(score[b])[j], QInt(maskT[b][j])), EPSILON)])])

\* Line 230: trans / trans.sum(-1, keepdim=True)
trans_norm(tr) ==
    Row([b \in 1..Len(tr) |->
        LET tot == QSum(tr[b])
        IN Row([j \in 1..Len(tr[b]) |-> QDiv(tr[b][j], tot)])])

\* Lines 231-232: trans.unsqueeze(1).log().expand(bat_siz, n, n)
trans_log_expand(tr, n) ==
    Row([b \in 1..Len(tr) |->
        Row([i \in 1..n |-> Row([j \in 1..n |-> Log(tr[b][j])])])])

\* Lines 234-236: the emissions of every (example, source position), a
\* function of the decoder state and of the encoder state of the position
emiss_of(enc, h_t) ==
    Row([b \in 1..Len(h_t) |->
        Row([s \in 1..Len(enc) |-> <<"log_softmax", h_t[b], enc[s][b]>>])])

\* HMMTransducer.decode_step (lines 215-238) from the new decoder state on
HMM_step_outputs(enc, mask, h_t, w) ==
    [trans |-> trans_log_expand(
                   trans_norm(trans_floor(attn_score(w, h_t),
                                          SplitCols(mask))),
                   Size0(mask)),
     emiss |-> emiss_of(enc, h_t),
     hidden |-> h_t]

\* HMMTransducer.decode_step (lines 215-238)
HMM_decode_step(enc, mask, input_, hid, w) ==
    HMM_step_outputs(enc, mask, dec_rnn(input_, hid), w)

\* torch.ones(n, n).triu() (line 245)
triu(n) == [i \in 1..n |-> [j \in 1..n |-> IF j >= i THEN 1 ELSE 0]]

\* Line 246: (trans_mask - 1) * -np.log(EPSILON)
trans_mask(n) ==
    Row([i \in 1..n |-> Row([j \in 1..n |->
        LTimes(triu(n)[i][j] - 1, LNeg(Log(EPSILON)))])])

\* Line 247: trans + trans_mask, the mask broadcast over the batch
mono_add(tr, tm) ==
    Row([b \in 1..Len(tr) |-> Row([i \in 1..Len(tm) |->
        Row([j \in 1..Len(tm) |-> LAdd(tr[b][i][j], tm[i][j])])])])

\* Line 248: trans - trans.logsumexp(-1, keepdim=True)
mono_norm(tr) ==
    Row([b \in 1..Len(tr) |-> Row([i \in 1..Len(tr[b]) |->
        LET lse == logsumexp(tr[b][i])
        IN Row([j \in 1..Len(tr[b][i]) |-> LSub(tr[b][i][j], lse)])])])

\* MonoHMMTransducer.decode_step (lines 242-249) from the outputs of the
\* parent's decode_step on
Mono_step_outputs(s, n) ==
    [trans |-> mono_norm(mono_add(s.trans, trans_mask(n))),
     emiss |-> s.emiss,
     hidden |-> s.hidden]

\* MonoHMMTransducer.decode_step (lines 242-249)
MonoHMM_decode_step(enc, mask, input_, hid, w) ==
    Mono_step_outputs(HMM_decode_step(enc, mask, input_, hid, w),
                      Size0(mask))

\* A slice that takes the last row instead of row 0.
InitialOfLastRow(trans) == [b \in 1..Len(trans) |-> <<trans[b][Len(trans[b])]>>]

\* trans[:, 0].unsqueeze(1) (line 206)
InitialOf(trans) == [b \in 1..Len(trans) |-> <<trans[b][1]>>]

----------------------------------------------------------------------------
\* HMM.emiss (lines 149-159) and HMM.p_x (lines 161-178)

\* Lines 152-153: the entry of every state for the token of every example
\* at time T, a (batch, 1, ns) tensor
emiss_gather(h, T, idx_) ==
    Row([b \in 1..Len(idx_) |->
        << Row([s \in 1..h.ns |-> h.emission[T + 1][b][s][idx_[b] + 1]]) >>])

\* Lines 154-159: emiss unchanged when ignore_index is None, else
\* emiss * (idx != ignore_index).float()
emiss_mask(e, idx_, ign) ==
    IF ign = <<>> THEN e
    ELSE Row([b \in 1..Len(e) |->
             << Row([s \in 1..Len(e[b][1]) |->
                    LTimes(IF idx_[b] # ign[1] THEN 1 ELSE 0,
                           e[b][1][s])]) >>])

HMM_emiss(h, T, idx_, ign) == emiss_mask(emiss_gather(h, T, idx_), idx_, ign)

\* Lines 163-165
p_x_asserts(h, sq) ==
    /\ HasShape(h.initial, <<Size1(sq), 1, h.ns>>)
    /\ HasShape(h.transition, <<Size0(sq) - 1, Size1(sq), h.ns, h.ns>>)
    /\ HasShape(h.emission, <<Size0(sq), Size1(sq), h.ns, h.V>>)

\* x + y of two (batch, 1, ns) tensors
AddRows(x, y) ==
    Row([b \in 1..Len(x) |->
        << Row([s \in 1..Len(x[b][1]) |-> LAdd(x[b][1][s], y[b][1][s])]) >>])

\* x.transpose(1, 2) of a (batch, ns, ns) tensor
transpose(x) ==
    Row([b \in 1..Len(x) |-> Row([j \in 1..Len(x[b]) |->
        Row([i \in 1..Len(x[b]) |-> x[b][i][j]])])])

\* Line 174: fwd + y for fwd of shape (batch, 1, ns) and y of shape
\* (batch, ns, ns): fwd is broadcast along axis 1
AddBroadcast(f, y) ==
    Row([b \in 1..Len(y) |-> Row([j \in 1..Len(y[b]) |->
        Row([i \in 1..Len(y[b][j]) |-> LAdd(f[b][1][i], y[b][j][i])])])])

\* Line 175: x.logsumexp(dim=-1, keepdim=True).transpose(1, 2)
LogSumExpRows(x) ==
    Row([b \in 1..Len(x) |->
        << Row([j \in 1..Len(x[b]) |-> logsumexp(x[b][j])]) >>])

\* Line 168
p_x_start(h, sq, ign) == AddRows(h.initial, HMM_emiss(h, 0, sq[1], ign))

\* Lines 174-177, the body of the loop at counter k
p_x_step(h, sq, ign, f, k) ==
    AddRows(LogSumExpRows(AddBroadcast(f, transpose(h.transition[k + 1]))),
            HMM_emiss(h, k + 1, sq[k + 2], ign))

----------------------------------------------------------------------------
\* Initial states

IdleDecode ==
    /\ trg_batch = <<>> /\ enc_hs = <<>> /\ enc_mask = <<>> /\ idx = 0
    /\ hidden = <<>> /\ attn_pos = <<>> /\ output = <<>> /\ result = <<>>
    /\ scored = <<>>

IdleGather == value = <<>> /\ index = <<>> /\ gathered = <<>>

IdleLoss == predict = <<>> /\ target = <<>> /\ loss_hist = <<>>

IdleHmm ==
    attn_w = <<>> /\ initial = <<>> /\ transition = <<>> /\ emission = <<>>

IdlePx ==
    hmm = <<>> /\ seq = <<>> /\ ignore_index = <<>> /\ t_ = 0 /\ fwd = <<>>

\* The arguments of one decode call of class m
InitDecode(m) ==
    /\ model = m
    /\ pc = "loop"
    /\ \E T \in 1..MaxTrgLen, bs \in BatchSizes, n \in 1..MaxSrcLen :
          /\ trg_batch \in Tensors(T, bs, TrgSyms)
          /\ enc_hs = EncStates(n, bs)
          /\ enc_mask \in Masks(n, bs)
          /\ hidden = get_init_hx(bs)
          /\ attn_pos = [b \in 1..bs |-> 0]
    /\ idx = 0
    /\ output = <<>>
    /\ result = <<>>
    /\ scored = <<>>
    /\ IdleGather /\ IdleLoss /\ IdleHmm /\ IdlePx

InitHardMono == InitDecode("HardMonoTransducer")

InitTransducer == InitDecode("Transducer")

----------------------------------------------------------------------------
\* Transducer.decode (lines 85-99), one loop iteration
TransducerDecodeLoop ==
    /\ model = "Transducer"
    /\ pc = "loop"
    /\ idx < Size0(trg_batch) - 1
    /\ LET input_ == StepInput(trg_batch, idx)
           step == Transducer_decode_step(enc_hs, enc_mask, input_, hidden)
       IN /\ idx' = idx + 1
          /\ hidden' = step.hidden
          /\ output' = Append(output, step.word_logprob)
    /\ UNCHANGED <<model, pc, trg_batch, enc_hs, enc_mask, attn_pos, result,
                   scored, gatherVars, lossVars, hmmVars, pxVars>>

\* HardMonoTransducer.decode (lines 327-347), one loop iteration
HardMonoDecodeLoop ==
    /\ model = "HardMonoTransducer"
    /\ pc = "loop"
    /\ idx < Size0(trg_batch) - 1
    /\ LET pos == AdvancePointers(attn_pos, trg_batch, idx)
           input_ == StepInput(trg_batch, idx)
           step == HardMono_decode_step(enc_hs, enc_mask, input_, hidden, pos)
       IN /\ attn_pos' = pos
          /\ IF step.err # "none"
             THEN /\ pc' = step.err
                  /\ UNCHANGED <<idx, hidden, output>>
             ELSE /\ pc' = "loop"
                  /\ idx' = idx + 1
                  /\ hidden' = step.hidden
                  /\ output' = Append(output, step.word_logprob)
    /\ UNCHANGED <<model, trg_batch, enc_hs, enc_mask, result, scored,
                   gatherVars, lossVars, hmmVars, pxVars>>

\* return torch.stack(output) (lines 99, 347): stack raises on an empty list
StackReturn ==
    /\ model \in {"Transducer", "HardMonoTransducer"}
    /\ pc = "loop"
    /\ idx >= Size0(trg_batch) - 1
    /\ IF output = <<>>
       THEN pc' = "RuntimeError" /\ UNCHANGED result
       ELSE pc' = "returned" /\ result' = output
    /\ UNCHANGED <<model, trg_batch, enc_hs, enc_mask, idx, hidden, attn_pos,
                   output, scored, gatherVars, lossVars, hmmVars, pxVars>>

\* Transducer.get_loss (lines 125-129) after forward returned: the rows
\* self.loss(out, trg[1:]) reads
GetLoss ==
    /\ model = "Transducer"
    /\ pc = "returned"
    /\ scored' = NllTerms(View(result), View(Shifted(trg_batch)), PAD_IDX)
    /\ pc' = "scored"
    /\ UNCHANGED <<model, trg_batch, enc_hs, enc_mask, idx, hidden, attn_pos,
                   output, result, gatherVars, lossVars, hmmVars, pxVars>>

NextHardMono == HardMonoDecodeLoop \/ StackReturn

SpecHardMono == InitHardMono /\ [][NextHardMono]_vars

NextTransducer == TransducerDecodeLoop \/ StackReturn \/ GetLoss

SpecTransducer == InitTransducer /\ [][NextTransducer]_vars

----------------------------------------------------------------------------
\* HMMTransducer.decode (lines 194-213) and HMMTransducer.loss (lines 186-192)

HMMClasses == {"HMMTransducer", "MonoHMMTransducer"}

\* The attention weights of an example over n source positions are all
\* equal, or one position is favoured.
\* The weights of a batch: the favoured position moves on by one from an
\* example to the next
BatchWeights(n, bs) ==
    { [b \in 1..bs |->
          [j \in 1..n |-> IF j = (k + b - 1) % (n + 1) THEN 2 + 1 ELSE 1]] :
        k \in 0..n }

\* Targets of T symbols: no padding, or the last example padded at the end
HmmTargets(T, bs) ==
    { [p \in 1..T |-> [b \in 1..bs |->
          IF b = bs /\ p > T - pad THEN PAD_IDX ELSE OtherSym]] :
        pad \in 0..1 }

InitHMM ==
    /\ model \in HMMClasses
    /\ pc = "loop"
    /\ \E T \in 1..MaxTrgLen, bs \in BatchSizes, n \in 1..MaxSrcLen :
          /\ trg_batch \in HmmTargets(T, bs)
          /\ enc_hs = EncStates(n, bs)
          /\ enc_mask \in Masks(n, bs)
          /\ hidden = get_init_hx(bs)
          /\ attn_w \in BatchWeights(n, bs)
    /\ idx = 0
    /\ attn_pos = <<>>
    /\ output = <<>>
    /\ result = <<>>
    /\ scored = <<>>
    /\ initial = <<>>
    /\ transition = <<>>
    /\ emission = <<>>
    /\ IdleGather /\ IdleLoss /\ IdlePx

\* self.decode_step of the class that runs
decode_step(m, enc, mask, input_, hid, w) ==
    IF m = "MonoHMMTransducer"
    THEN MonoHMM_decode_step(enc, mask, input_, hid, w)
    ELSE HMM_decode_step(enc, mask, input_, hid, w)

\* One loop iteration (lines 201-210)
HMMDecodeLoop ==
    /\ model \in HMMClasses
    /\ pc = "loop"
    /\ idx < Size0(trg_batch) - 1
    /\ \E step \in {decode_step(model, enc_hs, enc_mask,
                               StepInput(trg_batch, idx), hidden, attn_w)} :
          /\ idx' = idx + 1
          /\ hidden' = step.hidden
          /\ IF idx = 0
             THEN initial' = InitialOf(step.trans) /\ UNCHANGED transition
             ELSE transition' = Append(transition, step.trans)
                  /\ UNCHANGED initial
          /\ emission' = Append(emission, step.emiss)
    /\ UNCHANGED <<model, pc, trg_batch, enc_hs, enc_mask, attn_pos, output,
                   result, scored, attn_w, gatherVars, lossVars, pxVars>>

\* Lines 211-213: torch.stack raises on the empty transition list
HMMStackReturn ==
    /\ model \in HMMClasses
    /\ pc = "loop"
    /\ idx >= Size0(trg_batch) - 1
    /\ IF transition = <<>>
       THEN pc' = "RuntimeError" /\ UNCHANGED result
       ELSE /\ pc' = "returned"
            /\ result' = [init |-> initial, trans |-> transition,
                          emiss |-> emission]
    /\ UNCHANGED <<model, trg_batch, enc_hs, enc_mask, idx, hidden, attn_pos,
                   output, scored, hmmVars, gatherVars, lossVars, pxVars>>

\* The assertions of HMM.__init__ (lines 140-142) and of HMM.p_x (lines
\* 163-165) on a state and a (T, batch) sequence; the vocabulary axis of the
\* emissions, of size trg_vocab_size by construction, is not spelled out.
HMM_asserts(state, sq) ==
    LET T == Size0(sq)
        bs == Size1(sq)
        ns == Len(state.init[1][1])
    IN /\ \A k \in 1..Len(state.trans) : \A b \in 1..Len(state.trans[k]) :
             HasShape(state.trans[k][b], <<ns, ns>>)
       /\ \A k \in 1..Len(state.emiss) : \A b \in 1..Len(state.emiss[k]) :
             HasShape(state.emiss[k][b], <<ns>>)
       /\ HasShape(state.init, <<bs, 1, ns>>)
       /\ HasShape(state.trans, <<T - 1, bs, ns, ns>>)
       /\ HasShape(state.emiss, <<T, bs, ns>>)

\* get_loss (lines 125-129) with HMMTransducer.loss: the HMM is built and
\* p_x is entered on trg[1:]; the value of the loss is kept as a term over
\* the state and the sequence it is computed from.
HMMGetLoss ==
    /\ model \in HMMClasses
    /\ pc = "returned"
    /\ IF HMM_asserts(result, Shifted(trg_batch))
       THEN /\ pc' = "scored"
            /\ scored' = [predict |-> result, target |-> Shifted(trg_batch),
                          ignore_index |-> <<PAD_IDX>>,
                          seq_len |-> Size0(Shifted(trg_batch))]
       ELSE pc' = "AssertionError" /\ UNCHANGED scored
    /\ UNCHANGED <<model, trg_batch, enc_hs, enc_mask, idx, hidden, attn_pos,
                   output, result, hmmVars, gatherVars, lossVars, pxVars>>

NextHMM == HMMDecodeLoop \/ HMMStackReturn \/ HMMGetLoss

SpecHMM == InitHMM /\ [][NextHMM]_vars

----------------------------------------------------------------------------
\* Calls of fancy_gather

\* Slots (rows) of an index tensor
GatherSlots == {1, 2}

\* A value tensor whose every entry is its own (0-based) batch index
BatchIndexTensor(n, bs) == [p \in 1..n |-> [b \in 1..bs |-> b - 1]]

\* A value tensor whose entries are pairwise distinct
DistinctTensor(n, bs) == [p \in 1..n |-> [b \in 1..bs |-> 10 * p + b]]

InitGather ==
    /\ model = "fancy_gather"
    /\ pc = "call"
    /\ \E n \in 1..MaxSrcLen, bv \in BatchSizes, bi \in BatchSizes,
          K \in GatherSlots :
          /\ value \in {BatchIndexTensor(n, bv), DistinctTensor(n, bv)}
          /\ index \in Tensors(K, bi, (0 - n - 1)..n)
    /\ gathered = <<>>
    /\ IdleDecode /\ IdleLoss /\ IdleHmm /\ IdlePx

GatherCall ==
    /\ model = "fancy_gather"
    /\ pc = "call"
    /\ LET g == fancy_gather(value, index)
       IN /\ pc' = IF g.err = "none" THEN "returned" ELSE g.err
          /\ gathered' = g.val
    /\ UNCHANGED <<model, value, index, decVars, lossVars, hmmVars,
                   pxVars>>

NextGather == GatherCall

SpecGather == InitGather /\ [][NextGather]_vars

----------------------------------------------------------------------------
\* Calls of Transducer.loss

\* Target classes: trg_vocab_size = 3, class 0 is PAD
Vocab == 0..2

PredSeeds == 0..3

\* Log-probabilities (in negative integer units) of one prediction row
PredRow(seed, l, b) ==
    [v \in 1..Cardinality(Vocab) |-> 0 - (1 + ((seed + l + 2 * b + 3 * v) % 4))]

InitLoss ==
    /\ model = "Transducer.loss"
    /\ pc = "args"
    /\ \E L \in 1..(MaxTrgLen - 1), bs \in BatchSizes, seed \in PredSeeds :
          /\ predict = [l \in 1..L |-> [b \in 1..bs |-> PredRow(seed, l, b)]]
          /\ target \in Tensors(L, bs, Vocab)
    /\ loss_hist = <<>>
    /\ IdleDecode /\ IdleGather /\ IdleHmm /\ IdlePx

\* self.loss(predict, target)
LossCall ==
    /\ model = "Transducer.loss"
    /\ pc = "args"
    /\ loss_hist' = Append(loss_hist, Transducer_loss(predict, target))
    /\ pc' = "scored"
    /\ UNCHANGED <<model, predict, target, decVars, gatherVars, hmmVars,
                   pxVars>>

\* The caller adds a batch example whose targets are all PAD, with some
\* predictions for it, and scores again.
AppendPadExample ==
    /\ model = "Transducer.loss"
    /\ pc = "scored"
    /\ Len(loss_hist) = 1
    /\ \E seed \in PredSeeds :
          predict' = [l \in 1..Len(predict) |->
                         Append(predict[l], PredRow(seed, l, 0))]
    /\ target' = [l \in 1..Len(target) |-> Append(target[l], PAD_IDX)]
    /\ pc' = "args"
    /\ UNCHANGED <<model, loss_hist, decVars, gatherVars, hmmVars,
                   pxVars>>

\* The caller adds a target position that is PAD for every example, with
\* some predictions for it, and scores again.
AppendPadPosition ==
    /\ model = "Transducer.loss"
    /\ pc = "scored"
    /\ Len(loss_hist) = 1
    /\ \E seed \in PredSeeds :
          predict' = Append(predict,
                            [b \in 1..Size1(target) |->
                                PredRow(seed, Len(predict) + 1, b)])
    /\ target' = Append(target, [b \in 1..Size1(target) |-> PAD_IDX])
    /\ pc' = "args"
    /\ UNCHANGED <<model, loss_hist, decVars, gatherVars, hmmVars,
                   pxVars>>

NextLoss == LossCall \/ AppendPadExample \/ AppendPadPosition

SpecLoss == InitLoss /\ [][NextLoss]_vars

----------------------------------------------------------------------------
\* Calls of HMM.p_x

\* The tokens of the observed sequences: PAD and one other class of Vocab
PxTokens == {PAD_IDX, 1}

\* The families of HMM parameters
PxSeeds == 0..3

\* Probabilities, in tenths
PxVal(k) == <<5, 9, 1>>[(k % 3) + 1]

\* initial: (batch, 1, ns) log-probabilities
Px_initial(seed, bs, ns) ==
    [b \in 1..bs |-> << [s \in 1..ns |->
        Log(QFrac(PxVal(seed * (b + s)), 10))] >>]

\* transition: (len, batch, ns, ns) log-probabilities; the family of seed 2
\* gives probability 0 to every move to an earlier state
Px_transition(seed, len, bs, ns) ==
    [k \in 1..len |-> [b \in 1..bs |-> [i \in 1..ns |-> [j \in 1..ns |->
        Log(QFrac(IF seed = 2 /\ j < i THEN 0
                  ELSE PxVal(seed + k + b + i + 2 * j), 10))]]]]

\* emission: (T, batch, ns, V) log-probabilities; the family of seed 3
\* has the first state emit PAD with probability 0
Px_emission(seed, T, bs, ns) ==
    [k \in 1..T |-> [b \in 1..bs |-> [s \in 1..ns |->
        [v \in 1..Cardinality(Vocab) |->
            Log(QFrac(IF seed = 3 /\ s = 1 /\ v = PAD_IDX + 1 THEN 0
                      ELSE PxVal(seed + k + b + s + v), 10))]]]]

\* The observations of a batch: example 1 observes x, and example b
\* observes x rotated by b - 1 times
PxSeq(x, bs) ==
    [k \in 1..Len(x) |-> [b \in 1..bs |-> x[((k + b - 2) % Len(x)) + 1]]]

\* An HMM object (lines 136-147) and the arguments of a call of p_x; with
\* extra = 1 the object holds one transition matrix more than the sequence
\* has moves.
InitPx ==
    /\ model = "HMM.p_x"
    /\ pc = "call"
    /\ \E T \in 1..MaxTrgLen, bs \in BatchSizes, ns \in 1..MaxSrcLen,
          seed \in PxSeeds, extra \in 0..1 :
          /\ extra = 1 => seed = 1
          /\ hmm = [ns |-> ns, V |-> Cardinality(Vocab),
                    initial |-> Px_initial(seed, bs, ns),
                    transition |-> Px_transition(seed, T - 1 + extra, bs, ns),
                    emission |-> Px_emission(seed, T, bs, ns)]
          /\ \E x \in [1..T -> PxTokens] : seq = PxSeq(x, bs)
    /\ ignore_index \in {<<>>, <<PAD_IDX>>}
    /\ t_ = 0
    /\ fwd = <<>>
    /\ IdleDecode /\ IdleGather /\ IdleLoss /\ IdleHmm

\* Lines 162-168: the assertions and the initialisation
PxEnter ==
    /\ model = "HMM.p_x"
    /\ pc = "call"
    /\ IF p_x_asserts(hmm, seq)
       THEN pc' = "loop" /\ fwd' = p_x_start(hmm, seq, ignore_index)
       ELSE pc' = "AssertionError" /\ UNCHANGED fwd
    /\ UNCHANGED <<model, hmm, seq, ignore_index, t_, decVars, gatherVars,
                   lossVars, hmmVars>>

\* Lines 170-177: one iteration of the induction
PxInduct ==
    /\ model = "HMM.p_x"
    /\ pc = "loop"
    /\ t_ < Size0(seq) - 1
    /\ fwd' = p_x_step(hmm, seq, ignore_index, fwd, t_)
    /\ t_' = t_ + 1
    /\ UNCHANGED <<model, pc, hmm, seq, ignore_index, decVars, gatherVars,
                   lossVars, hmmVars>>

\* Line 178
PxReturn ==
    /\ model = "HMM.p_x"
    /\ pc = "loop"
    /\ t_ >= Size0(seq) - 1
    /\ pc' = "returned"
    /\ UNCHANGED <<model, hmm, seq, ignore_index, t_, fwd, decVars,
                   gatherVars, lossVars, hmmVars>>

NextPx == PxEnter \/ PxInduct \/ PxReturn

SpecPx == InitPx /\ [][NextPx]_vars

----------------------------------------------------------------------------
\* Properties of HardMonoTransducer.decode

TrgLen == Size0(trg_batch)
BatSiz == Size1(trg_batch)
SrcLen == Size0(enc_hs)

\* Number of STEP symbols of example b at the target positions lo..hi
CountStep(b, lo, hi) ==
    Cardinality({p \in lo..hi : trg_batch[p + 1][b] = STEP_IDX})

\* The encoder state that step i (1-based: the step predicting target
\* position i) of example b read, and the source position it sits at
CtxUsed(i, b) == output[i][b].h_t[i][2]
PointerUsed(i, b) == CtxUsed(i, b)[2]

\* C1: the pointer starts at 0; the step that decodes target position i
\* (it reads symbol i - 1 and predicts symbol i) uses, for every example,
\* a pointer equal to the number of STEP symbols of that example strictly
\* before position i, whatever the other symbols and the other examples
\* are; the pointers used never decrease from one step to the next.
C1_PointerCountsSteps ==
    model = "HardMonoTransducer" =>
        /\ (idx = 0 /\ pc = "loop") =>
              \A b \in 1..BatSiz : attn_pos[b] = 0
        /\ Len(output) = idx
        /\ \A i \in 1..Len(output) : \A b \in 1..BatSiz :
              /\ PointerUsed(i, b) = CountStep(b, 0, i - 1)
              /\ CtxUsed(i, b) = enc_hs[PointerUsed(i, b) + 1][b]
              /\ \A k \in 1..i : PointerUsed(k, b) <= PointerUsed(i, b)
        /\ \A b \in 1..BatSiz :
              /\ attn_pos[b] >= 0
              /\ idx > 0 => attn_pos[b] >= PointerUsed(idx, b)

\* Two examples of one batch with different pointers at the same step, one
\* of them advanced by a STEP that is followed by another symbol.
C1_Witness ==
    /\ model = "HardMonoTransducer"
    /\ pc = "returned"
    /\ BatSiz = 2
    /\ Len(output) = 2
    /\ trg_batch[1][1] = STEP_IDX /\ trg_batch[2][1] = OtherSym
    /\ trg_batch[1][2] = PAD_IDX
    /\ PointerUsed(2, 1) = 1
    /\ PointerUsed(2, 2) = 0

\* C2 as stated (read for targets of length >= 2, which have a step to
\* decode): when the call has ended, it has completed if no example has
\* more than source length - 1 STEP symbols in its target, and it has
\* failed with an out-of-range index, returning nothing, otherwise.
C2_AsStated ==
    (model = "HardMonoTransducer" /\ pc # "loop" /\ TrgLen >= 2) =>
        IF \A b \in 1..BatSiz : CountStep(b, 0, TrgLen - 1) <= SrcLen - 1
        THEN pc = "returned"
        ELSE pc = "IndexError" /\ result = <<>>

\* The first step (0-based) at which some pointer leaves the source
FirstOverrun ==
    LET bad == {i \in 0..(TrgLen - 2) :
                    \E b \in 1..BatSiz : CountStep(b, 0, i) > SrcLen - 1}
    IN IF bad = {} THEN -1 ELSE CHOOSE i \in bad : \A k \in bad : i <= k

\* C2, amended: for a target of length T >= 2, counting the STEP symbols at
\* the positions 0..T-2 only: if no example has more than source length - 1
\* of them, every step reads an in-range position and decode returns T - 1
\* outputs; otherwise decode fails with IndexError at the first step whose
\* pointer reached the source length, with the pointer left at that value
\* (not wrapped, not clamped) and nothing returned. A target of length 1
\* fails in torch.stack instead.
C2_PointerUnchecked ==
    (model = "HardMonoTransducer" /\ pc # "loop") =>
        IF TrgLen < 2
        THEN pc = "RuntimeError" /\ result = <<>>
        ELSE IF FirstOverrun = -1
        THEN /\ pc = "returned"
             /\ Len(result) = TrgLen - 1
             /\ \A i \in 1..Len(result) : \A b \in 1..BatSiz :
                   PointerUsed(i, b) \in 0..(SrcLen - 1)
        ELSE /\ pc = "IndexError"
             /\ result = <<>>
             /\ idx = FirstOverrun
             /\ \E b \in 1..BatSiz : attn_pos[b] = SrcLen
             /\ \A b \in 1..BatSiz : attn_pos[b] = CountStep(b, 0, idx)

\* A failed call: the second STEP of an example overruns a source of
\* length 2 at the second step, after the first step went through.
C2_Witness ==
    /\ model = "HardMonoTransducer"
    /\ pc = "IndexError"
    /\ SrcLen = 2
    /\ idx = 1
    /\ Len(output) = 1
    /\ \E b \in 1..BatSiz : attn_pos[b] = 2

\* C10: the encoder mask plays no part: a call fails only when a pointer
\* has reached the padded source length, so a pointer may rest on a padding
\* position of its own example and that position's encoder state is read;
\* a STEP at the last target position does not move the pointer.
C10_MaskNeverConsulted ==
    model = "HardMonoTransducer" =>
        /\ pc = "IndexError" => \E b \in 1..BatSiz : attn_pos[b] >= SrcLen
        /\ pc = "loop" => \A b \in 1..BatSiz : attn_pos[b] < SrcLen
        /\ pc = "returned" =>
              \A b \in 1..BatSiz :
                  /\ attn_pos[b] = CountStep(b, 0, TrgLen - 2)
                  /\ attn_pos[b] < SrcLen
        /\ \A i \in 1..Len(output) : \A b \in 1..BatSiz :
              enc_mask[PointerUsed(i, b) + 1][b] = 0 =>
                  CtxUsed(i, b) = <<"enc", PointerUsed(i, b), b>>

\* A completed call in which an example read the encoder state of one of
\* its own padding positions and whose target ends with a STEP.
C10_Witness ==
    /\ model = "HardMonoTransducer"
    /\ pc = "returned"
    /\ \E b \in 1..BatSiz :
          /\ \E i \in 1..Len(output) : enc_mask[PointerUsed(i, b) + 1][b] = 0
          /\ trg_batch[TrgLen][b] = STEP_IDX
          /\ attn_pos[b] = CountStep(b, 0, TrgLen - 1) - 1

----------------------------------------------------------------------------
\* Properties of Transducer.decode and get_loss

\* The decoder state after reading the ground-truth symbols 0..i-1 of b
ForcedState(i, b) == [k \in 1..i |-> <<"emb", trg_batch[k][b]>>]

\* C4 as stated: the call ends with a stacked output of length T - 1.
C4_AsStated ==
    (model = "Transducer" /\ pc # "loop") =>
        /\ pc \in {"returned", "scored"}
        /\ Len(result) = TrgLen - 1

\* C4, amended: decode performs T - 1 steps in increasing order; step idx
\* reads the embedding of the ground-truth symbol idx and the state step
\* idx - 1 returned (the zero state at idx = 0); for T >= 2 the stacked
\* output has length T - 1 and get_loss pairs entry idx with target
\* position idx + 1 (pad targets are skipped); for T = 1 no step runs and
\* torch.stack fails on the empty list.
C4_TeacherForcing ==
    model = "Transducer" =>
        /\ Len(output) = idx
        /\ idx <= TrgLen - 1 \/ TrgLen = 1
        /\ \A i \in 1..Len(output) : \A b \in 1..BatSiz :
              /\ output[i][b].h_t = ForcedState(i, b)
              /\ output[i][b].h_t =
                    Append(IF i = 1 THEN <<>> ELSE output[i - 1][b].h_t,
                           <<"emb", trg_batch[i][b]>>)
        /\ pc = "RuntimeError" <=> (TrgLen = 1 /\ idx = 0 /\ pc # "loop")
        /\ pc \in {"returned", "scored"} =>
              /\ TrgLen >= 2
              /\ idx = TrgLen - 1
              /\ result = output
              /\ Len(result) = TrgLen - 1
        /\ pc = "scored" =>
              /\ \A i \in 1..(TrgLen - 1) : \A b \in 1..BatSiz :
                    trg_batch[i + 1][b] # PAD_IDX =>
                        \E k \in 1..Len(scored) :
                            scored[k] = [row |-> result[i][b],
                                         class |-> trg_batch[i + 1][b]]
              /\ \A k \in 1..Len(scored) :
                    \E i \in 1..(TrgLen - 1) : \E b \in 1..BatSiz :
                        /\ scored[k].row = result[i][b]
                        /\ scored[k].class = trg_batch[i + 1][b]
                        /\ scored[k].class # PAD_IDX

\* A scored call of three steps' worth of target with two examples whose
\* symbols differ.
C4_Witness ==
    /\ model = "Transducer"
    /\ pc = "scored"
    /\ TrgLen = 3
    /\ BatSiz = 2
    /\ Len(scored) = 3
    /\ trg_batch[1][1] # trg_batch[1][2]
    /\ trg_batch[2][1] # trg_batch[3][1]

----------------------------------------------------------------------------
\* Properties of HMMTransducer.decode and of the two decode steps

\* The decoder state before step k (0-based): the embeddings of the
\* ground-truth symbols 0..k-1 of every example
StateBefore(k) == [b \in 1..BatSiz |-> ForcedState(k, b)]

\* What decode_step of class m returns at step k of the running call
StepOut(m, k) ==
    decode_step(m, enc_hs, enc_mask, StepInput(trg_batch, k), StateBefore(k),
                attn_w)

\* The distribution over next positions of HMMTransducer at step k
ParentRow(k, b) == StepOut("HMMTransducer", k).trans[b][1]

\* What "about 0" and "approximately" allow: 1e-5
Tolerance == QFrac(1, 100000)

\* |q - a/b| <= Tolerance
Approx(q, a, b) ==
    /\ QLe(q, QAdd(QFrac(a, b), Tolerance))
    /\ QLe(QFrac(a, b), QAdd(q, Tolerance))

\* C3 as stated: for a target of length T >= 2 decode returns a triple
\* whose initial distribution is row 0 of the first step's matrix, with the
\* T - 2 matrices of the steps 1..T-2 in order and the T - 1 emission
\* matrices of the steps 0..T-2 in order, and get_loss then passes the
\* shape assertions of HMM and HMM.p_x on the target shifted by one.
C3_AsStated ==
    (model \in HMMClasses /\ TrgLen >= 2 /\ pc # "loop") =>
        /\ pc \in {"returned", "scored"}
        /\ Len(result.init) = BatSiz
        /\ \A b \in 1..BatSiz :
              result.init[b] = <<StepOut(model, 0).trans[b][1]>>
        /\ Len(result.trans) = TrgLen - 2
        /\ \A k \in 1..Len(result.trans) :
              result.trans[k] = StepOut(model, k).trans
        /\ Len(result.emiss) = TrgLen - 1
        /\ \A k \in 1..Len(result.emiss) :
              result.emiss[k] = StepOut(model, k - 1).emiss
        /\ HMM_asserts(result, Shifted(trg_batch))

\* What decode does instead: the triple of C3 is returned for T >= 3, and
\* a target of length T <= 2 ends in torch.stack on the empty list of
\* matrices, nothing being returned.
C3_FromThree ==
    (model \in HMMClasses /\ pc # "loop") =>
        IF TrgLen <= 2
        THEN pc = "RuntimeError" /\ result = <<>>
        ELSE C3_AsStated

\* A target of length 3 decoded and scored: one transition matrix and two
\* emission matrices, for two examples.
C3_Witness ==
    /\ model \in HMMClasses
    /\ pc = "scored"
    /\ TrgLen = 3
    /\ BatSiz = 2
    /\ Len(result.trans) = 1
    /\ Len(result.emiss) = 2

\* C9: once the first step has run, the initial distribution is row 0 of
\* the first step's transition matrix, one (1, n) row per example, and that
\* matrix is not among the per-step matrices; in MonoHMMTransducer the
\* initial distribution equals, as a distribution, the one HMMTransducer
\* computes from the same scores and mask.
C9_InitialIsFirstRow ==
    (model \in HMMClasses /\ idx >= 1) =>
        /\ HasShape(initial, <<BatSiz, 1, SrcLen>>)
        /\ LET first == StepOut(model, 0).trans
               parent == StepOut("HMMTransducer", 0).trans
           IN \A b \in 1..BatSiz :
                 /\ initial[b][1] = first[b][1]
                 /\ \A j \in 1..SrcLen :
                       QEq(Exp(initial[b][1][j]), Exp(parent[b][1][j]))
        /\ Len(transition) = idx - 1
        /\ \A k \in 1..Len(transition) :
              transition[k] = StepOut(model, k).trans
        /\ pc \in {"returned", "scored"} => result.init = initial

\* A monotonic run over three source positions whose first example has
\* unequal attention weights and whose last row differs from row 0.
C9_Witness ==
    /\ model = "MonoHMMTransducer"
    /\ pc = "scored"
    /\ SrcLen = 3
    /\ attn_w[1] = <<1, 2 + 1, 1>>
    /\ BatSiz = 2
    /\ initial[1][1] # StepOut(model, 0).trans[1][3]
    /\ ~ QEq(Exp(initial[1][1][1]), Exp(initial[1][1][2]))

\* The matrices MonoHMMTransducer.decode_step returned at the steps >= 1
MonoMatrices ==
    IF model = "MonoHMMTransducer" THEN 1..Len(transition) ELSE {}

\* The probability of row i of a matrix that lies on the positions lo..hi
Mass(row, lo, hi) ==
    IF lo > hi THEN QInt(0)
    ELSE QSum([j \in 1..(hi - lo + 1) |-> Exp(row[lo + j - 1])])

\* Every row of every matrix sums to 1, and its entries on the positions
\* j >= i are in the proportions of the parent's distribution.
MonoForward ==
    \A k \in MonoMatrices : \A b \in 1..BatSiz :
        LET par == ParentRow(k, b)
        IN \A i \in 1..SrcLen :
              LET row == transition[k][b][i]
              IN /\ QEq(Mass(row, 1, SrcLen), QInt(1))
                 /\ \A j \in i..SrcLen : \A h \in i..SrcLen :
                       QEq(QMul(Exp(row[j]), Exp(par[h])),
                           QMul(Exp(row[h]), Exp(par[j])))

\* C6 as stated: in every row the entries on the positions j < i are about
\* 0, the others keep their proportions, and the row sums to 1.
C6_AsStated ==
    /\ MonoForward
    /\ \A k \in MonoMatrices : \A b \in 1..BatSiz : \A i \in 1..SrcLen :
          \A j \in 1..(i - 1) :
              QLe(Exp(transition[k][b][i][j]), Tolerance)

\* What decode_step guarantees instead of C6: every row sums to 1 and its
\* entries on the positions j >= i keep the proportions of the parent's
\* distribution; relative to those, every entry on a position j < i is the
\* parent's entry times EPSILON. So the probability of moving backwards
\* from i is at most 1e-5 when the parent gives the positions >= i a
\* probability of at least 0.01, and it is at least 0.01 when the positions
\* >= i are all padding (the parent gives them EPSILON-sized entries, which
\* the penalty does not outweigh).
C6_MonotonicRows ==
    /\ MonoForward
    /\ \A k \in MonoMatrices : \A b \in 1..BatSiz :
          LET par == ParentRow(k, b)
          IN \A i \in 1..SrcLen :
                LET row == transition[k][b][i]
                IN /\ \A j \in 1..(i - 1) : \A h \in i..SrcLen :
                         QEq(QMul(Exp(row[j]), Exp(par[h])),
                             QMul(QMul(EPSILON, Exp(par[j])), Exp(row[h])))
                   /\ QLe(QFrac(1, 100), Mass(par, i, SrcLen)) =>
                         QLe(Mass(row, 1, i - 1), Tolerance)
                   /\ (i > 1 /\ \A h \in i..SrcLen : enc_mask[h][b] = 0) =>
                         QLe(QFrac(1, 100), Mass(row, 1, i - 1))

\* The example of the claim: three source positions, none padded, equal
\* attention weights; the rows are about [1/3, 1/3, 1/3], [0, 1/2, 1/2] and
\* [0, 0, 1].
C6_Witness ==
    /\ model = "MonoHMMTransducer"
    /\ SrcLen = 3
    /\ Len(transition) >= 1
    /\ \E b \in 1..BatSiz :
          /\ attn_w[b] = <<1, 1, 1>>
          /\ \A p \in 1..3 : enc_mask[p][b] = 1
          /\ LET M == transition[1][b]
             IN /\ \A j \in 1..3 : Approx(Exp(M[1][j]), 1, 3)
                /\ Approx(Exp(M[2][1]), 0, 1)
                /\ \A j \in 2..3 : Approx(Exp(M[2][j]), 1, 2)
                /\ \A j \in 1..2 : Approx(Exp(M[3][j]), 0, 1)
                /\ Approx(Exp(M[3][3]), 1, 1)

----------------------------------------------------------------------------
\* Properties of HMM.p_x

PxLen == Size0(seq)
PxBat == Size1(seq)

\* The parameters of the HMM of example b as probabilities: of starting in
\* state s; of moving from state i to state j between the times k and
\* k + 1; of state s emitting the token observed at time k (times 0-based).
\* An observation equal to ignore_index counts as emitted with probability
\* 1 by every state.
Pi(b, s) == Exp(hmm.initial[b][1][s])
Move(k, b, i, j) == Exp(hmm.transition[k + 1][b][i][j])
Emit(k, b, s) ==
    IF ignore_index # <<>> /\ seq[k + 1][b] = ignore_index[1]
    THEN QInt(1)
    ELSE Exp(hmm.emission[k + 1][b][s][seq[k + 1][b] + 1])

\* The forward recurrence
RECURSIVE Alpha(_, _, _)
Alpha(k, b, j) ==
    IF k = 0 THEN QMul(Pi(b, j), Emit(0, b, j))
    ELSE QMul(QSum([i \in 1..hmm.ns |->
                       QMul(Alpha(k - 1, b, i), Move(k - 1, b, i, j))]),
              Emit(k, b, j))

\* The probability of the state path z[1], ..., z[k + 1] together with the
\* observations of the times 0..k
RECURSIVE PathProb(_, _, _)
PathProb(z, b, k) ==
    IF k = 0 THEN QMul(Pi(b, z[1]), Emit(0, b, z[1]))
    ELSE QMul(QMul(PathProb(z, b, k - 1), Move(k - 1, b, z[k], z[k + 1])),
              Emit(k, b, z[k + 1]))

RECURSIVE PathSumOver(_, _, _)
PathSumOver(Z, b, k) ==
    LET z == CHOOSE y \in Z : TRUE
    IN IF Z = {z} THEN PathProb(z, b, k)
       ELSE QAdd(PathProb(z, b, k), PathSumOver(Z \ {z}, b, k))

\* The probability of the observations of the times 0..k summed over the
\* state paths that are in state j at time k
PathSum(k, b, j) ==
    PathSumOver({z \in [1..(k + 1) -> 1..hmm.ns] : z[k + 1] = j}, b, k)

\* The log-space number x is the logarithm of the probability q
IsLogOf(x, q) == ~ IsNaN(x) /\ QEq(Exp(x), q)

\* The forward tensor holds the logarithms of the forward recurrence and of
\* the sums over the state paths
ForwardIsAlpha ==
    /\ pc \in {"loop", "returned"} =>
          \A b \in 1..PxBat : \A j \in 1..hmm.ns :
              IsLogOf(fwd[b][1][j], Alpha(t_, b, j))
    /\ pc = "loop" =>
          \A b \in 1..PxBat : \A j \in 1..hmm.ns :
              IsLogOf(fwd[b][1][j], PathSum(t_, b, j))
    /\ (pc = "returned" /\ PxLen = 1) =>
          \A b \in 1..PxBat : \A j \in 1..hmm.ns :
              fwd[b][1][j] =
                  Log(QMul(Exp(hmm.initial[b][1][j]), Emit(0, b, j)))

\* The assertions fail exactly on the shapes that are not those of p_x, and
\* the loop runs over the moves of the sequence
PxControl ==
    /\ pc = "AssertionError" <=> (pc # "call" /\ ~ p_x_asserts(hmm, seq))
    /\ pc \in {"loop", "returned"} =>
          /\ t_ <= PxLen - 1
          /\ HasShape(fwd, <<PxBat, 1, hmm.ns>>)
    /\ pc = "returned" => t_ = PxLen - 1

\* C5 as stated: after the initialisation and after every iteration, the
\* forward tensor holds, for every example b and state j, the logarithm of
\* the value of the forward recurrence with transitions read from state i
\* (the row) to state j (the column), which is the probability of the
\* observations so far summed over the state paths ending in j, an
\* observation equal to ignore_index contributing a factor 1 (0 in log
\* space); the returned tensor is the one of the last time step, and for a
\* sequence of length 1 it is initial + emission with no transition read.
C5_AsStated == model = "HMM.p_x" => (PxControl /\ ForwardIsAlpha)

\* Example b has, at a time up to k, an observation equal to ignore_index
\* that some state emits with probability 0: emiss multiplies its
\* log-probability -inf by the mask 0.
IgnoredInf(k, b) ==
    /\ ignore_index # <<>>
    /\ \E u \in 0..k : \E s \in 1..hmm.ns :
          /\ seq[u + 1][b] = ignore_index[1]
          /\ IsNegInf(hmm.emission[u + 1][b][s][seq[u + 1][b] + 1])

\* What p_x computes instead of C5: the statement of C5 holds for the calls
\* in which no ignored observation has an emission log-probability of
\* -inf; when one has, at the current time, the forward value of that state
\* is nan instead of the value of the recurrence.
C5_ForwardIsPathSum ==
    model = "HMM.p_x" =>
        /\ PxControl
        /\ (\A b \in 1..PxBat : ~ IgnoredInf(PxLen - 1, b)) => ForwardIsAlpha
        /\ pc \in {"loop", "returned"} =>
              \A b \in 1..PxBat : \A j \in 1..hmm.ns :
                  /\ IsNaN(fwd[b][1][j]) => IgnoredInf(t_, b)
                  /\ ( /\ ignore_index # <<>>
                       /\ seq[t_ + 1][b] = ignore_index[1]
                       /\ IsNegInf(hmm.emission[t_ + 1][b][j][seq[t_ + 1][b] + 1]) )
                        => IsNaN(fwd[b][1][j])

\* A returned call on three observations and at least two states, with
\* ignore_index = PAD_IDX, an example whose second observation is PAD and
\* whose others are not, and transitions that differ from their transpose.
C5_Witness ==
    /\ model = "HMM.p_x"
    /\ pc = "returned"
    /\ PxLen = 3
    /\ hmm.ns >= 2
    /\ ignore_index = <<PAD_IDX>>
    /\ seq[1][1] # PAD_IDX /\ seq[2][1] = PAD_IDX /\ seq[3][1] # PAD_IDX
    /\ ~ QEq(Move(0, 1, 1, 2), Move(0, 1, 2, 1))
    /\ ~ IsNaN(fwd[1][1][1]) /\ ~ IsNaN(fwd[1][1][2])
    /\ ~ QEq(Exp(fwd[1][1][1]), Exp(fwd[1][1][2]))

----------------------------------------------------------------------------
\* Properties of fancy_gather

\* Python's value[i, b]: a negative i counts from the end
At(i, b) == value[(IF i < 0 THEN i + Len(value) ELSE i) + 1][b]

\* C7: a call whose tensors differ in batch size fails its assertion and
\* returns nothing; otherwise the result at slot k, column b is
\* value[index[k, b], b] (the call raising when that index is out of range),
\* so a value tensor holding batch indices yields b at every slot of
\* column b.
C7_GatherPerColumn ==
    (model = "fancy_gather" /\ pc # "call") =>
        IF Size1(value) # Size1(index)
        THEN pc = "AssertionError" /\ gathered = <<>>
        ELSE IF \E k \in 1..Len(index) : \E b \in 1..Size1(index) :
                   index[k][b] \notin (0 - Len(value))..(Len(value) - 1)
        THEN pc = "IndexError" /\ gathered = <<>>
        ELSE /\ pc = "returned"
             /\ Len(gathered) = Len(index)
             /\ \A k \in 1..Len(index) :
                   /\ Len(gathered[k]) = Size1(index)
                   /\ \A b \in 1..Size1(index) :
                         /\ gathered[k][b] = At(index[k][b], b)
                         /\ value = BatchIndexTensor(Len(value), Size1(value))
                               => gathered[k][b] = b - 1

\* A gather over two columns whose indices differ, from a tensor of batch
\* indices.
C7_Witness ==
    /\ model = "fancy_gather"
    /\ pc = "returned"
    /\ Len(value) = 2
    /\ value = BatchIndexTensor(2, 2)
    /\ Len(index) = 2
    /\ index[1][1] # index[1][2]
    /\ index[2][1] # index[1][1]
    /\ gathered = <<<<0, 1>>, <<0, 1>>>>

----------------------------------------------------------------------------
\* Properties of Transducer.loss

\* The non-pad positions of the target
NonPad == {c \in (1..Size0(target)) \X (1..Size1(target)) :
              target[c[1]][c[2]] # PAD_IDX}

RECURSIVE SumOver(_, _)
SumOver(S, f) ==
    IF S = {} THEN 0
    ELSE LET c == CHOOSE x \in S : TRUE IN f[c] + SumOver(S \ {c}, f)

\* The negative log-likelihood summed over the non-pad positions
NonPadNll ==
    SumOver(NonPad, [c \in NonPad |->
                        0 - predict[c[1]][c[2]][target[c[1]][c[2]] + 1]])

\* C8: the loss is the negative log-likelihood summed over the non-pad
\* positions divided by their number, and it is the same before and after
\* a pad-only column is appended to the batch.
C8_PadExcluded ==
    model = "Transducer.loss" =>
        /\ pc = "scored" =>
              loss_hist[Len(loss_hist)] =
                  [num |-> NonPadNll, den |-> Cardinality(NonPad)]
        /\ Len(loss_hist) = 2 => loss_hist[2] = loss_hist[1]

\* A batch with pad and non-pad targets scored before and after a pad-only
\* example was appended.
C8_Witness ==
    /\ model = "Transducer.loss"
    /\ Len(loss_hist) = 2
    /\ Size1(target) = 3
    /\ Size0(target) = 2
    /\ target[1][1] = PAD_IDX
    /\ target[2][1] # PAD_IDX
    /\ \A l \in 1..2 : target[l][3] = PAD_IDX
    /\ loss_hist[2].den = 3

====
